---- MODULE Spec2Model ----
(***************************************************************************)
(* The live-call component (src/components/LiveCallOverlay.tsx) as a state *)
(* machine.  One component instance is modelled: its React state, its      *)
(* refs, the resources the refs point to (microphone streams, audio        *)
(* contexts, transport sessions, script processors, timers) and the        *)
(* asynchronous continuations that are pending (getUserMedia requests,     *)
(* connect handshakes, the retry timeout, suspended onmessage handlers).   *)
(* Every handler runs to its next await as one atomic step, as the         *)
(* browser's event loop runs it.                                           *)
(***************************************************************************)
EXTENDS Integers, Sequences, FiniteSets, TLC

\* ---------------------------------------------------------------- bounds
MaxConnects == 3      \* connect() invocations in one behaviour
NumVoices == 2        \* voices the user chooses among
MaxClock == 3         \* ticks of the output context's clock
MaxDur == 2           \* longest inbound audio chunk, in ticks
MaxStart == 4         \* latest start time a source is scheduled at
MaxDecoding == 2      \* onmessage handlers suspended in decode at once
MaxSeq == 3           \* audio chunks numbered in one run of reception
MaxCams == 3          \* camera requests (getUserMedia with video) in one behaviour
MaxSample == 3        \* full scale (1.0) is MaxSample / MaxSample
MaxBlock == 2         \* samples in a capture block
MaxIds == 2           \* chat sessions created with a Date.now() id
MaxSends == 2         \* handleSendMessage invocations in one behaviour
MaxSources == 3       \* playAudio invocations in one behaviour

Voices == 1..NumVoices
Null == 0

\* The user-facing messages set by setErrorMessage.
MSG_NONE == ""
MSG_CONNECTION_FAILED == "Connection failed. Check network or quota."
MSG_QUOTA == "Quota exceeded. Please check billing."
MSG_NETWORK == "Network error. Please retry."
MSG_MIC == "Failed to access microphone or network."

\* Failure messages the transport reports, as the set of the substrings the
\* classification can look for.
FailureMsgs == { {"429"}, {"quota"}, {"RESOURCE_EXHAUSTED"}, {"network"} }
Includes(msg, sub) == sub \in msg
RateLimited(msg) == msg \cap {"429", "quota", "RESOURCE_EXHAUSTED"} # {}
Kind(msg) ==
  IF Includes(msg, "429") THEN "429" ELSE IF RateLimited(msg) THEN "rate-limited" ELSE "other"

VARIABLES
  \* React state
  phase,            \* "init" (constructed, effect not yet run), "mounted", "unmounted"
  status, errorMessage, isMicOn, selectedVoice,
  isVideoOn, cameraFacingMode,
  apiKey,           \* whether process.env.API_KEY is non-empty
  \* refs
  activeRef, inputAudioContextRef, outputAudioContextRef,
  nextStartTimeRef, sourcesRef, streamRef, processorRef, animationFrameRef, analyserRef,
  currentSessionPromiseRef, videoStreamRef, videoIntervalRef,
  \* the objects behind the refs
  conns,            \* the connect() invocations so far: the closure each captured
  micPending,       \* invocations suspended in getUserMedia
  liveMics,         \* microphone streams whose tracks are live
  sess,             \* per invocation, the transport session it created
  closeOnResolve,   \* pending sessions cleanup attached .then(close) to
  processors,       \* script processors firing onaudioprocess
  rafLoops,         \* animateAudioLevel loops with a frame requested
  retryTimers,      \* pending setTimeout(500) callbacks of handleRetry
  clock,            \* currentTime of the newest output audio context
  decoding,         \* onmessage handlers suspended in decodeAudioData
  cams,             \* the camera requests so far: facing asked for, by whom, state
  liveCams,         \* camera streams whose tracks are live
  intervals,        \* armed setInterval(1000) samplers
  srcObject,        \* the stream bound to the <video> element
  readyState,       \* whether the element has HAVE_ENOUGH_DATA
  canvas,           \* the stream whose frame the canvas holds
  pcmBlob,          \* the last block createPcmBlob encoded: samples and int16 values
  \* the chat view (App)
  sessions,         \* the session list, newest first: [id, msgs]
  currentSessionId,
  isGenerating,
  calls,            \* handleSendMessage invocations: captured id, shown session, state, timer
  idClock,          \* Date.now(), as the number of ids drawn from it
  audioContextRef,  \* the playback context: "none", "suspended" or "running"
  activeSourceRef,  \* the speech source the ref names, Null for none
  playing,          \* speech sources started and neither stopped nor finished
  endedQueue,       \* sources whose ended event is queued
  resumeWaiters,    \* playAudio calls suspended in resume(), oldest first
  sourceCount,      \* playAudio invocations so far
  \* bookkeeping
  lastOp,           \* the handler that ran last, and how it ended
  run               \* the sources started back to back, newest last

reactVars == <<phase, status, errorMessage, isMicOn, selectedVoice, apiKey>>
videoHeap == <<videoStreamRef, videoIntervalRef, liveCams, intervals, srcObject,
               readyState, canvas>>
heapVars == <<activeRef, inputAudioContextRef, outputAudioContextRef,
              nextStartTimeRef, sourcesRef, streamRef, processorRef,
              animationFrameRef, analyserRef, currentSessionPromiseRef, liveMics, sess,
              closeOnResolve, processors, rafLoops, videoHeap>>
asyncVars == <<conns, micPending, retryTimers, clock, decoding>>
camVars == <<isVideoOn, cameraFacingMode, cams>>
ttsVars == <<audioContextRef, activeSourceRef, playing, endedQueue, resumeWaiters,
             sourceCount>>
chatVars == <<sessions, currentSessionId, isGenerating, calls, idClock>>
appVars == <<chatVars, ttsVars>>
callVars == <<reactVars, heapVars, asyncVars, camVars, pcmBlob, run>>
vars == <<reactVars, heapVars, asyncVars, camVars, pcmBlob, appVars, lastOp, run>>

\* No block encoded yet.
NoBlock == [samples |-> <<>>, int16 |-> <<>>]

Op(name, arg) == [op |-> name, arg |-> arg]

\* ------------------------------------------------------ the chat's data
DEFAULT_SESSION_ID == 0

NewConversation(id) == [id |-> id, msgs |-> <<>>]

\* A message: its role, the handleSendMessage invocation that wrote it (0 for
\* a stored one) and whether it carries audioData.
Message(role, call, audio) == [role |-> role, call |-> call, audio |-> audio]

\* What useState reads for the session list: the default list, or the list
\* localStorage holds, here one with a spoken reply.
StoredSessions ==
  { <<NewConversation(DEFAULT_SESSION_ID)>>,
    <<[id |-> DEFAULT_SESSION_ID,
       msgs |-> <<Message("user", 0, FALSE), Message("model", 0, TRUE)>>]>> }

Ids(ss) == { ss[i].id : i \in DOMAIN ss }

\* prev.filter(s => s.id !== id)
Filter(ss, id) == SelectSeq(ss, LAMBDA s : s.id # id)

\* prev.map(s => s.id === id ? {...s, messages: [...s.messages, m]} : s)
AppendTo(ss, id, m) ==
  [i \in DOMAIN ss |-> IF ss[i].id = id THEN [ss[i] EXCEPT !.msgs = Append(@, m)]
                                        ELSE ss[i]]

\* ------------------------------------------------------------ the heap
\* The refs and the resources behind them, as one value handlers transform.
Cur ==
  [ activeRef |-> activeRef,
    inputAudioContextRef |-> inputAudioContextRef,
    outputAudioContextRef |-> outputAudioContextRef,
    nextStartTimeRef |-> nextStartTimeRef,
    sourcesRef |-> sourcesRef,
    streamRef |-> streamRef,
    processorRef |-> processorRef,
    animationFrameRef |-> animationFrameRef,
    analyserRef |-> analyserRef,
    currentSessionPromiseRef |-> currentSessionPromiseRef,
    liveMics |-> liveMics,
    sess |-> sess,
    closeOnResolve |-> closeOnResolve,
    processors |-> processors,
    rafLoops |-> rafLoops,
    videoStreamRef |-> videoStreamRef,
    videoIntervalRef |-> videoIntervalRef,
    liveCams |-> liveCams,
    intervals |-> intervals,
    srcObject |-> srcObject,
    readyState |-> readyState,
    canvas |-> canvas ]

Put(h) ==
  /\ activeRef' = h.activeRef
  /\ inputAudioContextRef' = h.inputAudioContextRef
  /\ outputAudioContextRef' = h.outputAudioContextRef
  /\ nextStartTimeRef' = h.nextStartTimeRef
  /\ sourcesRef' = h.sourcesRef
  /\ streamRef' = h.streamRef
  /\ processorRef' = h.processorRef
  /\ animationFrameRef' = h.animationFrameRef
  /\ analyserRef' = h.analyserRef
  /\ currentSessionPromiseRef' = h.currentSessionPromiseRef
  /\ liveMics' = h.liveMics
  /\ sess' = h.sess
  /\ closeOnResolve' = h.closeOnResolve
  /\ processors' = h.processors
  /\ rafLoops' = h.rafLoops
  /\ videoStreamRef' = h.videoStreamRef
  /\ videoIntervalRef' = h.videoIntervalRef
  /\ liveCams' = h.liveCams
  /\ intervals' = h.intervals
  /\ srcObject' = h.srcObject
  /\ readyState' = h.readyState
  /\ canvas' = h.canvas

\* setState of an unmounted component changes nothing.
SetState(old, new) == IF phase = "mounted" THEN new ELSE old

\* ------------------------------------------------------------- cleanup
\* session.close() as cleanup's .then callback calls it: an open session is
\* closed; a pending one is closed when its handshake resolves; on a
\* rejected promise the callback never runs.
CloseSession(h) ==
  LET s == h.currentSessionPromiseRef IN
  IF s = Null THEN h
  ELSE [h EXCEPT
          !.sess = IF h.sess[s] = "open" THEN [h.sess EXCEPT ![s] = "closed"] ELSE h.sess,
          !.closeOnResolve = IF h.sess[s] = "pending" THEN h.closeOnResolve \cup {s}
                             ELSE h.closeOnResolve,
          !.currentSessionPromiseRef = Null]

\* The camera stream the ref names is stopped and the ref nulled.
StopVideoStream(h) ==
  IF h.videoStreamRef = Null THEN h
  ELSE [h EXCEPT !.liveCams = h.liveCams \ {h.videoStreamRef}, !.videoStreamRef = Null]

\* A cleanup that stops the tracks and forgets to null the ref.
StopMediaStreams_KeepsRef(h) ==
  StopVideoStream(IF h.streamRef = Null THEN h
                  ELSE [h EXCEPT !.liveMics = h.liveMics \ {h.streamRef}])

StopMediaStreams(h) ==
  StopVideoStream(IF h.streamRef = Null THEN h
                  ELSE [h EXCEPT !.liveMics = h.liveMics \ {h.streamRef},
                                 !.streamRef = Null])

\* processor, input source and analyser are disconnected and nulled; the
\* pending animation frame the ref names is cancelled.
StopAudioProcessing(h) ==
  LET h0 == IF h.processorRef = Null THEN h
            ELSE [h EXCEPT !.processors = h.processors \ {h.processorRef},
                           !.processorRef = Null]
      h1 == [h0 EXCEPT !.analyserRef = Null]
  IN IF h1.animationFrameRef = Null THEN h1
     ELSE [h1 EXCEPT !.rafLoops = h1.rafLoops \ {h1.animationFrameRef},
                     !.animationFrameRef = Null]

\* clearInterval of the sampler the ref names.
StopVideoProcessing(h) ==
  IF h.videoIntervalRef = Null THEN h
  ELSE [h EXCEPT !.intervals = h.intervals \ {h.videoIntervalRef},
                 !.videoIntervalRef = Null]

\* Closing the input context silences every processor created in it.
CloseAudioContexts(h) ==
  [h EXCEPT !.processors = IF h.inputAudioContextRef THEN {} ELSE h.processors,
            !.inputAudioContextRef = FALSE,
            !.outputAudioContextRef = FALSE]

StopAllSources(h) == [h EXCEPT !.sourcesRef = {}, !.nextStartTimeRef = 0]

cleanup(h) ==
  StopAllSources(CloseAudioContexts(StopVideoProcessing(
    StopAudioProcessing(StopMediaStreams(CloseSession(h))))))

\* The release calls cleanup makes on heap h.
ReleasesOf(h) ==
     (IF h.currentSessionPromiseRef # Null THEN {"session.close"} ELSE {})
  \cup (IF h.streamRef # Null THEN {"stream.stop"} ELSE {})
  \cup (IF h.videoStreamRef # Null THEN {"videoStream.stop"} ELSE {})
  \cup (IF h.videoIntervalRef # Null THEN {"clearInterval"} ELSE {})
  \cup (IF h.processorRef # Null THEN {"processor.disconnect"} ELSE {})
  \cup (IF h.analyserRef # Null THEN {"analyser.disconnect"} ELSE {})
  \cup (IF h.animationFrameRef # Null THEN {"cancelAnimationFrame"} ELSE {})
  \cup (IF h.inputAudioContextRef THEN {"inputAudioContext.close"} ELSE {})
  \cup (IF h.outputAudioContextRef THEN {"outputAudioContext.close"} ELSE {})
  \cup (IF h.sourcesRef # {} THEN {"source.stop"} ELSE {})

\* How a run of cleanup on heap h went, for the record in lastOp: whether it
\* stopped playing sources, released something else, or found nothing to
\* release, right after another run ("again") or not.
CleanupRecord(h) ==
  IF h.sourcesRef # {} THEN "stopped sources"
  ELSE IF ReleasesOf(h) # {} THEN "released"
  ELSE IF lastOp.op \in {"handleRetry", "unmount", "selectVoice"} THEN "again"
  ELSE "idle"

\* ------------------------------------------------------------- connect
\* connect() up to its await of getUserMedia, by a closure that captured
\* voice v and isMicOn m.  The new invocation is number Len(conns) + 1.
ConnectStarts(h) == h.activeRef

ConnectBeginHeap(h) ==
  IF ~h.activeRef THEN h
  ELSE [h EXCEPT !.outputAudioContextRef = TRUE,
                 !.inputAudioContextRef = TRUE,
                 !.sess = Append(h.sess, "none")]

ConnectBegin(h, v, m) ==
  /\ Put(ConnectBeginHeap(h))
  /\ IF ConnectStarts(h)
       THEN /\ status' = SetState(status, "connecting")
            /\ errorMessage' = SetState(errorMessage, MSG_NONE)
            /\ conns' = Append(conns, [voice |-> v, micOn |-> m])
            /\ micPending' = micPending \cup {Len(conns) + 1}
            /\ clock' = IF h.outputAudioContextRef THEN clock ELSE 0
       ELSE UNCHANGED <<status, errorMessage, conns, micPending, clock>>

\* connect()'s catch block.
ConnectCatch ==
  /\ status' = SetState(status, "error")
  /\ errorMessage' = SetState(errorMessage, MSG_MIC)

\* animateAudioLevel(): requests the next frame unless the analyser is gone
\* or the call is inactive.
animateAudioLevel(h, l) ==
  IF h.analyserRef = Null \/ ~h.activeRef
    THEN [h EXCEPT !.rafLoops = h.rafLoops \ {l}]
    ELSE [h EXCEPT !.rafLoops = h.rafLoops \cup {l}, !.animationFrameRef = l]

\* connect() after getUserMedia resolved with the stream of invocation c.
ConnectResumeHeap(h, c) ==
  LET h1 == [h EXCEPT !.streamRef = c, !.liveMics = h.liveMics \cup {c}] IN
  IF ~apiKey THEN h1
  ELSE LET h2 == [h1 EXCEPT !.sess = [h1.sess EXCEPT ![c] = "pending"],
                            !.currentSessionPromiseRef = c]
       IN IF ~h2.inputAudioContextRef THEN h2
          ELSE animateAudioLevel(
                 [h2 EXCEPT !.processorRef = c,
                            !.processors = h2.processors \cup {c},
                            !.analyserRef = c], c)

\* The failures of the analyser a connect() can meet after the session is
\* created: createAnalyser() throws, or the first animateAudioLevel() does.
AnalyserFaults == {"createAnalyser", "animateAudioLevel"}

\* connect() after getUserMedia resolved, running into an analyser fault.
\* The analyser is created before the processor is connected to the
\* destination: without it the processor gets no blocks.  A throwing
\* animateAudioLevel has requested no frame.
ConnectResumeFaultHeap(h, c, fault) ==
  LET h1 == [h EXCEPT !.streamRef = c, !.liveMics = h.liveMics \cup {c},
                      !.sess = [h.sess EXCEPT ![c] = "pending"],
                      !.currentSessionPromiseRef = c,
                      !.processorRef = c]
  IN IF fault = "createAnalyser" THEN h1
     ELSE [h1 EXCEPT !.processors = h1.processors \cup {c}, !.analyserRef = c]

\* A connect() that goes on without an API key.
ConnectThrows_IgnoresKey(h) == ~h.inputAudioContextRef

\* connect() throws after getUserMedia: "API Key not found", or the input
\* context that cleanup nulled.
ConnectThrows(h) == ~apiKey \/ ~h.inputAudioContextRef

\* --------------------------------------------------------------- Init
InitCall ==
  /\ phase = "init"
  /\ status = "connecting"
  /\ errorMessage = MSG_NONE
  /\ isMicOn = TRUE
  /\ selectedVoice = 1
  /\ apiKey \in BOOLEAN
  /\ activeRef = TRUE
  /\ inputAudioContextRef = FALSE
  /\ outputAudioContextRef = FALSE
  /\ nextStartTimeRef = 0
  /\ sourcesRef = {}
  /\ streamRef = Null
  /\ processorRef = Null
  /\ animationFrameRef = Null
  /\ analyserRef = Null
  /\ currentSessionPromiseRef = Null
  /\ conns = <<>>
  /\ micPending = {}
  /\ liveMics = {}
  /\ sess = <<>>
  /\ closeOnResolve = {}
  /\ processors = {}
  /\ rafLoops = {}
  /\ retryTimers = <<>>
  /\ clock = 0
  /\ decoding = <<>>
  /\ isVideoOn = FALSE
  /\ cameraFacingMode = "user"
  /\ videoStreamRef = Null
  /\ videoIntervalRef = Null
  /\ cams = <<>>
  /\ liveCams = {}
  /\ intervals = {}
  /\ srcObject = Null
  /\ readyState = FALSE
  /\ canvas = Null
  /\ pcmBlob = NoBlock
  /\ lastOp = Op("init", "")
  /\ run = <<>>

\* The chat view after construction, with ss the list useState read.
InitApp(ss) ==
  /\ sessions = ss
  /\ currentSessionId = ss[1].id
  /\ isGenerating = FALSE
  /\ calls = <<>>
  /\ idClock = 0
  /\ audioContextRef = "none"
  /\ activeSourceRef = Null
  /\ playing = {}
  /\ endedQueue = {}
  /\ resumeWaiters = <<>>
  /\ sourceCount = 0

\* The state after construction with nothing in localStorage.
Init == InitCall /\ InitApp(<<NewConversation(DEFAULT_SESSION_ID)>>)

\* The state after construction when localStorage holds a session list.
InitStored == InitCall /\ \E ss \in StoredSessions : InitApp(ss)

\* A handler started by a task (a click, a timer, a socket or device event)
\* starts only when no continuation is waiting in the microtask queue.
Task == decoding = <<>>

\* Room for one more connect() invocation, counting the retry timers that
\* will each make one.
Budget == Len(conns) + Len(retryTimers) < MaxConnects
SmallBudget == Len(conns) + Len(retryTimers) + 1 < MaxConnects

\* ------------------------------------------------------ mount / unmount
\* The effect's first run: activeRef.current = true; connect().
MountEffect ==
  /\ Task
  /\ phase = "init"
  /\ phase' = "mounted"
  /\ ConnectBegin([Cur EXCEPT !.activeRef = TRUE], selectedVoice, isMicOn)
  /\ UNCHANGED <<isMicOn, selectedVoice, apiKey, retryTimers, decoding>>
  /\ UNCHANGED <<camVars, pcmBlob, appVars>>
  /\ lastOp' = Op("mount", "")
  /\ UNCHANGED run

\* The END button: onClose() unmounts the overlay, which runs the effect's
\* cleanup: activeRef.current = false; cleanup().
EndCall ==
  /\ Task
  /\ phase = "mounted"
  /\ phase' = "unmounted"
  /\ Put(cleanup([Cur EXCEPT !.activeRef = FALSE]))
  /\ UNCHANGED <<status, errorMessage, isMicOn, selectedVoice, apiKey, asyncVars>>
  /\ UNCHANGED <<camVars, pcmBlob, appVars>>
  /\ lastOp' = Op("unmount", CleanupRecord(Cur))
  /\ run' = <<>>

\* A voice chosen in the selector: the effect's cleanup of the previous
\* render, then the effect again with the new render's closure.
SelectVoice(v) ==
  /\ Task
  /\ phase = "mounted"
  /\ v # selectedVoice
  /\ Budget
  /\ selectedVoice' = v
  /\ ConnectBegin([cleanup([Cur EXCEPT !.activeRef = FALSE]) EXCEPT !.activeRef = TRUE],
                  v, isMicOn)
  /\ UNCHANGED <<phase, isMicOn, apiKey, retryTimers, decoding>>
  /\ UNCHANGED <<camVars, pcmBlob, appVars>>
  /\ lastOp' = Op("selectVoice", CleanupRecord(Cur))
  /\ run' = <<>>

\* ---------------------------------------------------------------- retry
\* The Retry button is rendered only while status is error.
handleRetry ==
  /\ Task
  /\ phase = "mounted"
  /\ status = "error"
  /\ Budget
  /\ Put(cleanup(Cur))
  /\ retryTimers' = Append(retryTimers, [voice |-> selectedVoice, micOn |-> isMicOn])
  /\ UNCHANGED <<reactVars, conns, micPending, clock, decoding>>
  /\ UNCHANGED <<camVars, pcmBlob, appVars>>
  /\ lastOp' = Op("handleRetry", CleanupRecord(Cur))
  /\ run' = <<>>

\* The timeout's callback: activeRef.current = true; connect().
RetryTimerFires ==
  /\ Task
  /\ retryTimers # <<>>
  /\ retryTimers' = Tail(retryTimers)
  /\ ConnectBegin([Cur EXCEPT !.activeRef = TRUE],
                  Head(retryTimers).voice, Head(retryTimers).micOn)
  /\ UNCHANGED <<phase, isMicOn, selectedVoice, apiKey, decoding>>
  /\ UNCHANGED <<camVars, pcmBlob, appVars>>
  /\ lastOp' = Op("retryTimer", "")
  /\ UNCHANGED run

\* ------------------------------------------------------ getUserMedia
MicResolves(c) ==
  /\ Task
  /\ c \in micPending
  /\ micPending' = micPending \ {c}
  /\ Put(ConnectResumeHeap(Cur, c))
  /\ IF ConnectThrows([Cur EXCEPT !.streamRef = c])
       THEN ConnectCatch
       ELSE UNCHANGED <<status, errorMessage>>
  /\ UNCHANGED <<phase, isMicOn, selectedVoice, apiKey, conns, retryTimers, clock,
                 decoding>>
  /\ UNCHANGED <<camVars, pcmBlob, appVars>>
  /\ lastOp' = Op("micResolved", "")
  /\ UNCHANGED run

\* getUserMedia resolves and connect() then fails on the analyser: the
\* throw lands in connect()'s catch.
MicResolvesAnalyserFails(c, fault) ==
  /\ Task
  /\ c \in micPending
  /\ apiKey
  /\ inputAudioContextRef
  /\ micPending' = micPending \ {c}
  /\ Put(ConnectResumeFaultHeap(Cur, c, fault))
  /\ ConnectCatch
  /\ UNCHANGED <<phase, isMicOn, selectedVoice, apiKey, conns, retryTimers, clock,
                 decoding>>
  /\ UNCHANGED <<camVars, pcmBlob, appVars>>
  /\ lastOp' = Op("analyserFailed", fault)
  /\ UNCHANGED run

MicRejects(c) ==
  /\ Task
  /\ c \in micPending
  /\ micPending' = micPending \ {c}
  /\ ConnectCatch
  /\ UNCHANGED <<phase, isMicOn, selectedVoice, apiKey, heapVars, conns, retryTimers,
                 clock, decoding>>
  /\ UNCHANGED <<camVars, pcmBlob, appVars>>
  /\ lastOp' = Op("micRejected", "")
  /\ UNCHANGED run

\* ------------------------------------------------- transport callbacks
\* The handshake completes: onopen runs, the promise resolves, and a close
\* that cleanup attached to the pending promise runs right after.
onopen(s) ==
  /\ Task
  /\ s \in DOMAIN sess
  /\ sess[s] = "pending"
  /\ sess' = [sess EXCEPT ![s] = IF s \in closeOnResolve THEN "closed" ELSE "open"]
  /\ closeOnResolve' = closeOnResolve \ {s}
  /\ status' = IF activeRef THEN SetState(status, "connected") ELSE status
  /\ UNCHANGED <<phase, errorMessage, isMicOn, selectedVoice, apiKey, activeRef,
                 inputAudioContextRef, outputAudioContextRef, nextStartTimeRef,
                 sourcesRef, streamRef, processorRef, animationFrameRef, analyserRef,
                 currentSessionPromiseRef, liveMics, processors, rafLoops,
                 asyncVars>>
  /\ UNCHANGED <<camVars, pcmBlob, appVars, videoHeap>>
  /\ lastOp' = Op("onopen", "")
  /\ UNCHANGED run

\* The classification of sessionPromise.catch.
ClassifyRejection(msg) ==
  IF Includes(msg, "429") \/ Includes(msg, "quota") THEN MSG_QUOTA ELSE MSG_NETWORK

\* The connect promise rejects: sessionPromise.catch runs.
sessionPromiseCatch(s, msg) ==
  /\ Task
  /\ s \in DOMAIN sess
  /\ sess[s] = "pending"
  /\ sess' = [sess EXCEPT ![s] = "closed"]
  /\ closeOnResolve' = closeOnResolve \ {s}
  /\ status' = IF activeRef THEN SetState(status, "error") ELSE status
  /\ errorMessage' = IF activeRef THEN SetState(errorMessage, ClassifyRejection(msg))
                     ELSE errorMessage
  /\ UNCHANGED <<phase, isMicOn, selectedVoice, apiKey, activeRef,
                 inputAudioContextRef, outputAudioContextRef, nextStartTimeRef,
                 sourcesRef, streamRef, processorRef, animationFrameRef, analyserRef,
                 currentSessionPromiseRef, liveMics, processors, rafLoops,
                 asyncVars>>
  /\ UNCHANGED <<camVars, pcmBlob, appVars, videoHeap>>
  /\ lastOp' = Op("sessionPromise.catch", Kind(msg))
  /\ UNCHANGED run

\* The message onerror records.
ClassifyError(msg) == MSG_CONNECTION_FAILED

\* The socket reports an error (and closes): onerror runs.
onerror(s, msg) ==
  /\ Task
  /\ s \in DOMAIN sess
  /\ sess[s] \in {"pending", "open"}
  /\ sess' = [sess EXCEPT ![s] = "closed"]
  /\ status' = IF activeRef THEN SetState(status, "error") ELSE status
  /\ errorMessage' = IF activeRef THEN SetState(errorMessage, ClassifyError(msg))
                     ELSE errorMessage
  /\ UNCHANGED <<phase, isMicOn, selectedVoice, apiKey, activeRef,
                 inputAudioContextRef, outputAudioContextRef, nextStartTimeRef,
                 sourcesRef, streamRef, processorRef, animationFrameRef, analyserRef,
                 currentSessionPromiseRef, liveMics, processors,
                 rafLoops, asyncVars>>
  /\ closeOnResolve' = closeOnResolve \ {s}
  /\ UNCHANGED <<camVars, pcmBlob, appVars, videoHeap>>
  /\ lastOp' = Op("onerror", Kind(msg))
  /\ UNCHANGED run

\* The server closes the socket: onclose runs and changes nothing.
onclose(s) ==
  /\ Task
  /\ s \in DOMAIN sess
  /\ sess[s] = "open"
  /\ sess' = [sess EXCEPT ![s] = "closed"]
  /\ UNCHANGED <<reactVars, activeRef, inputAudioContextRef, outputAudioContextRef,
                 nextStartTimeRef, sourcesRef, streamRef, processorRef,
                 animationFrameRef, analyserRef, currentSessionPromiseRef, liveMics,
                 closeOnResolve, processors, rafLoops, asyncVars>>
  /\ UNCHANGED <<camVars, pcmBlob, appVars, videoHeap>>
  /\ lastOp' = Op("onclose", "")
  /\ UNCHANGED run

\* ------------------------------------------------------ animation frame
AnimationFrame(l) ==
  /\ Task
  /\ l \in rafLoops
  /\ Put(animateAudioLevel(Cur, l))
  /\ animateAudioLevel(Cur, l) # Cur
  /\ UNCHANGED <<reactVars, asyncVars>>
  /\ UNCHANGED <<camVars, pcmBlob, appVars>>
  /\ lastOp' = Op("animationFrame", "")
  /\ UNCHANGED run

\* A later frame's animateAudioLevel throws (getByteFrequencyData on a
\* broken analyser): no further frame is requested, nothing catches it.
AnimationFrameThrows(l) ==
  /\ Task
  /\ l \in rafLoops
  /\ analyserRef # Null
  /\ activeRef
  /\ Put([Cur EXCEPT !.rafLoops = Cur.rafLoops \ {l}])
  /\ UNCHANGED <<reactVars, asyncVars>>
  /\ UNCHANGED <<camVars, pcmBlob, appVars>>
  /\ lastOp' = Op("analyserFailed", "frame")
  /\ UNCHANGED run

\* ------------------------------------------------------------ playback
Max(a, b) == IF a >= b THEN a ELSE b

\* Inbound messages: an audio chunk of dur ticks (0: none), an interrupted
\* flag, or both.
Messages == { m \in [dur : 0..MaxDur, interrupted : BOOLEAN] : m.dur > 0 \/ m.interrupted }

\* An assignment of the clock where the maximum is meant.
ClampToClock_Assign(h) == [h EXCEPT !.nextStartTimeRef = clock]

\* nextStartTimeRef.current = Math.max(nextStartTimeRef.current, ctx.currentTime)
ClampToClock(h) == [h EXCEPT !.nextStartTimeRef = Max(h.nextStartTimeRef, clock)]

\* A schedule that forgets to advance the next start time.
Schedule_NoAdvance(h, d) ==
  [h EXCEPT !.sourcesRef = h.sourcesRef \cup {[start |-> h.nextStartTimeRef, dur |-> d]}]

\* source.start(nextStartTimeRef.current); nextStartTimeRef.current +=
\* audioBuffer.duration; sourcesRef.current.add(source)
Schedule(h, d) ==
  [h EXCEPT !.sourcesRef = h.sourcesRef \cup {[start |-> h.nextStartTimeRef, dur |-> d]},
            !.nextStartTimeRef = h.nextStartTimeRef + d]

\* An interruption that clears the set and leaves the next start time.
HandleInterruption_NoReset(h) == [h EXCEPT !.sourcesRef = {}]

\* The interrupted branch: every source stopped, the set cleared, the next
\* start moved to the output clock if an output context exists.
HandleInterruption(h) ==
  [h EXCEPT !.sourcesRef = {},
            !.nextStartTimeRef = IF h.outputAudioContextRef THEN clock
                                 ELSE h.nextStartTimeRef]

\* The ticks of audio the suspended handlers are about to schedule.
RECURSIVE SumDur(_)
SumDur(q) == IF q = <<>> THEN 0 ELSE Head(q).dur + SumDur(Tail(q))
PendingDur == SumDur(decoding)

\* The order of reception, for the record: a chunk is numbered one above
\* the chunks suspended or started back to back before it.
SeqMax(S) == IF S = {} THEN 0 ELSE CHOOSE x \in S : \A y \in S : y <= x
NextSeq ==
  1 + SeqMax({ decoding[i].seq : i \in DOMAIN decoding } \cup { run[i].seq : i \in DOMAIN run })

\* The suspended handlers an interruption was handled ahead of are marked.
MarkStale(q) == [i \in DOMAIN q |-> [q[i] EXCEPT !.stale = TRUE]]

\* A resumption that takes the handler suspended last.
Resumed_Lifo(q) == [m |-> q[Len(q)], rest |-> SubSeq(q, 1, Len(q) - 1)]

\* The handler that resumes: each await takes the same number of microtask
\* turns, so the handlers resume in the order they suspended.
Resumed(q) == [m |-> Head(q), rest |-> Tail(q)]

\* A catch that tears the call down.
DecodeCatch_Teardown(h) == cleanup(h)

\* The catch around the decode: console.error, nothing else.
DecodeCatch(h) == h

\* onmessage up to its await of decodeAudioData (or to its end, when the
\* message has no audio to decode).
onmessage(s, m) ==
  /\ s \in DOMAIN sess
  /\ sess[s] = "open"
  /\ m.dur > 0 => /\ Len(decoding) < MaxDecoding
                  /\ NextSeq <= MaxSeq
                  /\ Max(nextStartTimeRef, clock) + PendingDur + m.dur <= MaxStart
  /\ UNCHANGED <<reactVars, conns, micPending, retryTimers, clock, camVars, pcmBlob, appVars>>
  /\ IF ~activeRef
       THEN /\ UNCHANGED <<heapVars, decoding, run>>
            /\ lastOp' = Op("onmessage", "inactive")
       ELSE IF m.dur > 0 /\ outputAudioContextRef
         THEN /\ Put(ClampToClock(Cur))
              /\ decoding' = Append(decoding, [dur |-> m.dur, interrupted |-> m.interrupted,
                                               seq |-> NextSeq, stale |-> FALSE])
              /\ run' = IF clock > nextStartTimeRef THEN <<>> ELSE run
              /\ lastOp' = Op("onmessage", "decoding")
         ELSE IF m.interrupted
           THEN /\ Put(HandleInterruption(Cur))
                /\ run' = <<>>
                /\ decoding' = MarkStale(decoding)
                /\ lastOp' = Op("onmessage", "interrupted")
           ELSE /\ UNCHANGED <<heapVars, decoding, run>>
                /\ lastOp' = Op("onmessage", "ignored")

\* onmessage after decodeAudioData resolved; the handlers resume in the
\* order they suspended.
onmessageResume ==
  /\ decoding # <<>>
  /\ UNCHANGED <<reactVars, conns, micPending, retryTimers, clock, camVars, pcmBlob, appVars>>
  /\ LET m == Resumed(decoding).m
         rest == Resumed(decoding).rest
         h == Schedule(Cur, m.dur)
     IN IF m.interrupted
          THEN /\ Put(HandleInterruption(h))
               /\ decoding' = MarkStale(rest)
               /\ run' = <<>>
               /\ lastOp' = Op("onmessage", "interrupted")
          ELSE /\ Put(h)
               /\ decoding' = rest
               /\ run' = Append(run, [start |-> nextStartTimeRef, dur |-> m.dur,
                                      seq |-> m.seq])
               /\ lastOp' = Op("onmessage", "scheduled")

\* onmessage after decodeAudioData rejected (a payload that is not whole
\* 16-bit samples): the catch, then the interrupted branch.
onmessageDecodeFails ==
  /\ decoding # <<>>
  /\ UNCHANGED <<reactVars, conns, micPending, retryTimers, clock, camVars, pcmBlob, appVars>>
  /\ LET m == Resumed(decoding).m
         rest == Resumed(decoding).rest
         h == DecodeCatch(Cur)
     IN IF m.interrupted
          THEN /\ Put(HandleInterruption(h))
               /\ decoding' = MarkStale(rest)
               /\ run' = <<>>
               /\ lastOp' = Op("onmessage", "interrupted")
          ELSE /\ Put(h)
               /\ decoding' = rest
               /\ UNCHANGED run
               /\ lastOp' = Op("onmessage", "decode failed")

\* source.onended: a source that played to its end leaves the set.
onended(src) ==
  /\ Task
  /\ src \in sourcesRef
  /\ outputAudioContextRef
  /\ clock >= src.start + src.dur
  /\ sourcesRef' = sourcesRef \ {src}
  /\ UNCHANGED <<reactVars, activeRef, inputAudioContextRef, outputAudioContextRef,
                 nextStartTimeRef, streamRef, processorRef, animationFrameRef, analyserRef,
                 currentSessionPromiseRef, liveMics, sess, closeOnResolve,
                 processors, rafLoops, asyncVars, run>>
  /\ UNCHANGED <<camVars, pcmBlob, appVars, videoHeap>>
  /\ lastOp' = Op("onended", "")

\* The output context's clock advances.
Tick ==
  /\ Task
  /\ outputAudioContextRef
  /\ clock < MaxClock
  /\ clock' = clock + 1
  /\ UNCHANGED <<reactVars, heapVars, conns, micPending, retryTimers, decoding, run>>
  /\ UNCHANGED <<camVars, pcmBlob, appVars>>
  /\ lastOp' = Op("tick", "")

\* ------------------------------------------------------------- capture
toggleMic ==
  /\ Task
  /\ phase = "mounted"
  /\ isMicOn' = ~isMicOn
  /\ UNCHANGED <<phase, status, errorMessage, selectedVoice, apiKey, heapVars,
                 asyncVars, run>>
  /\ UNCHANGED <<camVars, pcmBlob, appVars>>
  /\ lastOp' = Op("toggleMic", "")

\* A send with no try and no catch around it.
SendOutcome_NoCatch(state) ==
  IF state = "open" THEN "sent"
  ELSE IF state = "pending" THEN "deferred"
  ELSE "uncaught"

\* promise.then(session => { try { session.sendRealtimeInput(..) } catch {} })
\* .catch(() => {}) on a session in the given state: sent on an open one,
\* sent or dropped later on a pending one; on a closed one the send throws
\* or does nothing, on a rejected promise the callback is skipped, and
\* either way nothing is raised.
SendOutcome(state) ==
  IF state = "open" THEN "sent"
  ELSE IF state = "pending" THEN "deferred"
  ELSE "dropped"

\* What processor p's onaudioprocess does with a block: its closure holds the
\* isMicOn and the sessionPromise of the connect() that created it.
BlockOutcome(p) ==
  IF ~conns[p].micOn THEN "muted" ELSE SendOutcome(sess[p])

\* The capture blocks: 1 to MaxBlock samples, each a fraction n / SampleDen
\* from one step below -1.0 to one step above 1.0.
SampleDen == MaxSample
Samples == (0 - MaxSample - 1)..(MaxSample + 1)
Blocks == UNION { [1..n -> Samples] : n \in 1..MaxBlock }
Silence == <<0>>

\* The conversion of a number to an Int16Array element: the fraction is
\* dropped (towards zero) and the integer is reduced modulo 2^16 into
\* -32768..32767.
Trunc(a, b) == IF a >= 0 THEN a \div b ELSE 0 - ((0 - a) \div b)
ToInt16(x) == LET m == x % 65536 IN IF m >= 32768 THEN m - 65536 ELSE m

\* A conversion that saturates at the ends of the range.
createPcmBlob_Clips(data) ==
  [samples |-> data,
   int16 |-> [i \in DOMAIN data |->
                LET x == Trunc(data[i] * 32768, SampleDen)
                IN IF x > 32767 THEN 32767 ELSE IF x < 0 - 32768 THEN 0 - 32768 ELSE x]]

\* int16[i] = data[i] * 32768, for every i.
createPcmBlob(data) ==
  [samples |-> data,
   int16 |-> [i \in DOMAIN data |-> ToInt16(Trunc(data[i] * 32768, SampleDen))]]

onaudioprocess(p, data) ==
  /\ Task
  /\ p \in processors
  /\ pcmBlob' = IF conns[p].micOn THEN createPcmBlob(data) ELSE pcmBlob
  /\ UNCHANGED <<reactVars, heapVars, asyncVars, camVars, appVars, run>>
  /\ lastOp' = Op("onaudioprocess", BlockOutcome(p))


\* --------------------------------------------------------------- video
Opposite(f) == IF f = "user" THEN "environment" ELSE "user"

CamPending == { c \in DOMAIN cams : cams[c].state = "pending" }

\* A camera request: getUserMedia({video: {facingMode: f}}) by handler by.
CamRequest(f, by) == [facing |-> f, by |-> by, state |-> "pending"]

\* The video toggle.  Camera on: the stream and the sampler the refs name are
\* stopped.  Camera off: a stream of the current facing is requested.
toggleVideo ==
  /\ Task
  /\ phase = "mounted"
  /\ IF isVideoOn
       THEN /\ Put(StopVideoProcessing(StopVideoStream(Cur)))
            /\ isVideoOn' = FALSE
            /\ UNCHANGED <<cameraFacingMode, cams>>
            /\ lastOp' = Op("toggleVideo", "off")
       ELSE /\ Len(cams) < MaxCams
            /\ cams' = Append(cams, CamRequest(cameraFacingMode, "toggleVideo"))
            /\ UNCHANGED <<heapVars, isVideoOn, cameraFacingMode>>
            /\ lastOp' = Op("toggleVideo", "requested")
  /\ UNCHANGED <<reactVars, asyncVars, pcmBlob, appVars, run>>

\* switchCamera up to its await: the facing is flipped, the tracks of the
\* current stream are stopped (the ref keeps naming it) and a stream of the
\* opposite facing is requested.
switchCamera ==
  /\ Task
  /\ phase = "mounted"
  /\ isVideoOn
  /\ Len(cams) < MaxCams
  /\ cameraFacingMode' = Opposite(cameraFacingMode)
  /\ Put([Cur EXCEPT !.liveCams = Cur.liveCams \ {Cur.videoStreamRef}])
  /\ cams' = Append(cams, CamRequest(Opposite(cameraFacingMode), "switchCamera"))
  /\ UNCHANGED <<reactVars, asyncVars, isVideoOn, pcmBlob, appVars, run>>
  /\ lastOp' = Op("switchCamera", "requested")

\* A startSendingVideo that arms a sampler without clearing the one the ref
\* names.
startSendingVideo_NoClear(h, i) ==
  [h EXCEPT !.videoIntervalRef = i, !.intervals = h.intervals \cup {i}]

\* startSendingVideo(): a sampler the ref names is cleared, a new one armed.
startSendingVideo(h, i) ==
  LET h1 == StopVideoProcessing(h)
  IN [h1 EXCEPT !.videoIntervalRef = i, !.intervals = h1.intervals \cup {i}]

\* The stream is stored in the ref and, if the <video> element exists, bound
\* to it; a new source takes the element back to having no data.
BindStream(h, c) ==
  LET h1 == [h EXCEPT !.videoStreamRef = c, !.liveCams = h.liveCams \cup {c}]
  IN IF phase = "mounted" THEN [h1 EXCEPT !.srcObject = c, !.readyState = FALSE] ELSE h1

\* The camera request c is granted: toggleVideo or switchCamera resumes.
CamResolves(c) ==
  /\ Task
  /\ c \in CamPending
  /\ cams' = [cams EXCEPT ![c].state = "acquired"]
  /\ IF cams[c].by = "toggleVideo"
       THEN /\ Put(startSendingVideo(BindStream(Cur, c), c))
            /\ isVideoOn' = SetState(isVideoOn, TRUE)
       ELSE /\ Put(BindStream(Cur, c))
            /\ UNCHANGED isVideoOn
  /\ UNCHANGED <<reactVars, asyncVars, cameraFacingMode, pcmBlob, appVars, run>>
  /\ lastOp' = Op(cams[c].by, "acquired")

\* The camera request c is refused: the catch block logs it.
CamRejects(c) ==
  /\ Task
  /\ c \in CamPending
  /\ cams' = [cams EXCEPT ![c].state = "failed"]
  /\ UNCHANGED <<reactVars, heapVars, asyncVars, isVideoOn, cameraFacingMode, pcmBlob, appVars,
                 run>>
  /\ lastOp' = Op(cams[c].by, "failed")

\* The element has decoded enough of a live stream to show a frame.
VideoCanPlay ==
  /\ Task
  /\ phase = "mounted"
  /\ srcObject \in liveCams
  /\ ~readyState
  /\ readyState' = TRUE
  /\ UNCHANGED <<reactVars, activeRef, inputAudioContextRef, outputAudioContextRef,
                 nextStartTimeRef, sourcesRef, streamRef, processorRef,
                 animationFrameRef, analyserRef, currentSessionPromiseRef, liveMics, sess,
                 closeOnResolve, processors, rafLoops, videoStreamRef,
                 videoIntervalRef, liveCams, intervals, srcObject, canvas,
                 asyncVars, camVars, pcmBlob, appVars, run>>
  /\ lastOp' = Op("canplay", "")

\* The element may drop its data once the tracks of its stream have ended.
VideoStalls ==
  /\ Task
  /\ phase = "mounted"
  /\ srcObject # Null
  /\ srcObject \notin liveCams
  /\ readyState
  /\ readyState' = FALSE
  /\ UNCHANGED <<reactVars, activeRef, inputAudioContextRef, outputAudioContextRef,
                 nextStartTimeRef, sourcesRef, streamRef, processorRef,
                 animationFrameRef, analyserRef, currentSessionPromiseRef, liveMics, sess,
                 closeOnResolve, processors, rafLoops, videoStreamRef,
                 videoIntervalRef, liveCams, intervals, srcObject, canvas,
                 asyncVars, camVars, pcmBlob, appVars, run>>
  /\ lastOp' = Op("stalled", "")

\* What a sampler tick does on heap h: nothing without the elements (gone
\* with the unmount) or without a session promise in the ref, nothing while
\* the element has no frame; otherwise the frame is drawn and sent.
FrameOutcome(h) ==
  IF phase # "mounted" THEN "no element"
  ELSE IF h.currentSessionPromiseRef = Null THEN "no session"
  ELSE IF ~h.readyState THEN "no frame"
  ELSE SendOutcome(h.sess[h.currentSessionPromiseRef])

\* A callback that disarms its sampler when it has nothing to send.
samplerCallback_Disarms(h, i) ==
  IF FrameOutcome(h) \in {"no element", "no session", "no frame"}
    THEN [h EXCEPT !.intervals = h.intervals \ {i}]
    ELSE [h EXCEPT !.canvas = h.srcObject]

\* The callback of sampler i: the frame of the bound stream is drawn on the
\* canvas, unless the tick has nothing to send.
samplerCallback(h, i) ==
  IF FrameOutcome(h) \in {"no element", "no session", "no frame"}
    THEN h
    ELSE [h EXCEPT !.canvas = h.srcObject]

SamplerTick(i) ==
  /\ Task
  /\ i \in intervals
  /\ Put(samplerCallback(Cur, i))
  /\ UNCHANGED <<reactVars, asyncVars, camVars, pcmBlob, appVars, run>>
  /\ lastOp' = Op("samplerTick", FrameOutcome(Cur))

\* ---------------------------------------------------------------- chat
\* The session the view shows: the one currentSessionId names, else the
\* first of the list (the list is never empty).
currentSession ==
  IF currentSessionId \in Ids(sessions)
    THEN sessions[CHOOSE i \in DOMAIN sessions : sessions[i].id = currentSessionId]
    ELSE sessions[1]

\* The speech playback state as one value.
Tts == [ref |-> activeSourceRef, playing |-> playing, ended |-> endedQueue]

PutTts(t) ==
  /\ activeSourceRef' = t.ref
  /\ playing' = t.playing
  /\ endedQueue' = t.ended

\* if (activeSourceRef.current) { stop(); activeSourceRef.current = null }:
\* a source that was playing stops, and its ended event is queued.
StopActive(t) ==
  IF t.ref = Null THEN t
  ELSE [ref |-> Null,
        playing |-> t.playing \ {t.ref},
        ended |-> IF t.ref \in t.playing THEN t.ended \cup {t.ref} ELSE t.ended]

\* source.start(0); activeSourceRef.current = source
StartSource(t, s) == [t EXCEPT !.playing = @ \cup {s}, !.ref = s]

\* playAudio on a running context: it runs to its end before any other task
\* (decodeAudioData awaits nothing).
playAudio(t, s) == StartSource(StopActive(t), s)

RECURSIVE StartAll(_, _)
StartAll(t, ws) ==
  IF ws = <<>> THEN t ELSE StartAll(StartSource(t, Head(ws)), Tail(ws))

\* The playAudio calls ws resume together when resume() resolves: each
\* passes the stop test and suspends in its decode before any of them
\* starts its source.
playAudioResumed(t, ws) == StartAll(StopActive(t), ws)

createNewSession ==
  /\ idClock < MaxIds
  /\ idClock' = idClock + 1
  /\ sessions' = <<NewConversation(idClock + 1)>> \o sessions
  /\ currentSessionId' = idClock + 1
  /\ PutTts(StopActive(Tts))
  /\ UNCHANGED <<isGenerating, calls, audioContextRef, resumeWaiters, sourceCount>>
  /\ UNCHANGED callVars
  /\ lastOp' = Op("createNewSession", "")

\* onSessionSelect
selectSession(id) ==
  /\ id \in Ids(sessions)
  /\ currentSessionId' = id
  /\ UNCHANGED <<sessions, isGenerating, calls, idClock, ttsVars>>
  /\ UNCHANGED callVars
  /\ lastOp' = Op("selectSession", "")

\* deleteSession: the list without the session, or a fresh conversation if
\* none is left; the successor of a deleted current session is computed from
\* the list the handler closed over.
deleteSession(id) ==
  LET filtered == Filter(sessions, id)
      remaining == Filter(sessions, id)
  IN /\ id \in Ids(sessions)
     /\ filtered = <<>> => idClock < MaxIds
     /\ sessions' = IF filtered = <<>> THEN <<NewConversation(idClock + 1)>>
                                       ELSE filtered
     /\ idClock' = IF filtered = <<>> THEN idClock + 1 ELSE idClock
     /\ currentSessionId' =
          IF id # currentSessionId THEN currentSessionId
          ELSE IF Len(remaining) > 0 THEN remaining[1].id ELSE DEFAULT_SESSION_ID
     /\ UNCHANGED <<isGenerating, calls, ttsVars>>
     /\ UNCHANGED callVars
     /\ lastOp' = Op("deleteSession", IF id = currentSessionId THEN "current" ELSE "other")

\* Where a send comes from: the input bar, which refuses while isGenerating,
\* or a suggestion button of the empty chat, which does not ask.
SendSources == {"input", "suggestion"}

MaySend(src) ==
  IF src = "input" THEN ~isGenerating ELSE currentSession.msgs = <<>>

\* handleSendMessage up to its await: the user message goes to the session
\* currentSessionId names, isGenerating is set and the progress timer armed.
handleSendMessage(src) ==
  LET k == Len(calls) + 1 IN
  /\ Len(calls) < MaxSends
  /\ MaySend(src)
  /\ sessions' = AppendTo(sessions, currentSessionId, Message("user", k, FALSE))
  /\ isGenerating' = TRUE
  /\ calls' = Append(calls, [session |-> currentSessionId,
                             shown |-> currentSession.id,
                             state |-> "pending",
                             timer |-> TRUE])
  /\ UNCHANGED <<currentSessionId, idClock, ttsVars>>
  /\ UNCHANGED callVars
  /\ lastOp' = Op("handleSendMessage", src)

\* How the generation ends for handleSendMessage: the service returned, or
\* the call threw and the catch wrote the apology.
Outcomes == {"returned", "threw"}

\* handleSendMessage after its await: the timer is cleared, the model
\* message goes to the session whose id the call closed over, isGenerating
\* is cleared.
handleSendMessageResume(k, outcome) ==
  /\ k \in DOMAIN calls
  /\ calls[k].state = "pending"
  /\ calls' = [calls EXCEPT ![k].state = "done", ![k].timer = FALSE]
  /\ sessions' = AppendTo(sessions, calls[k].session, Message("model", k, FALSE))
  /\ isGenerating' = FALSE
  /\ UNCHANGED <<currentSessionId, idClock, ttsVars>>
  /\ UNCHANGED callVars
  /\ lastOp' = Op("sendCompleted", outcome)

\* ------------------------------------------------------ speech playback
\* The states a new AudioContext can start in.
ContextStates == {"suspended", "running"}

\* The play button of a message with audioData: playAudio(data).
handlePlayAudio(created) ==
  LET s == sourceCount + 1
      ctx == IF audioContextRef = "none" THEN created ELSE audioContextRef
  IN /\ sourceCount < MaxSources
     /\ \E i \in DOMAIN currentSession.msgs : currentSession.msgs[i].audio
     /\ audioContextRef = "none" \/ created = audioContextRef
     /\ sourceCount' = s
     /\ audioContextRef' = ctx
     /\ IF ctx = "suspended"
          THEN /\ resumeWaiters' = Append(resumeWaiters, s)
               /\ UNCHANGED <<activeSourceRef, playing, endedQueue>>
          ELSE /\ PutTts(playAudio(Tts, s))
               /\ UNCHANGED resumeWaiters
     /\ UNCHANGED chatVars
     /\ UNCHANGED callVars
     /\ lastOp' = Op("playAudio", ctx)

\* resume() resolves: the context runs and the suspended calls go on.
ContextResumes ==
  /\ audioContextRef = "suspended"
  /\ resumeWaiters # <<>>
  /\ audioContextRef' = "running"
  /\ PutTts(playAudioResumed(Tts, resumeWaiters))
  /\ resumeWaiters' = <<>>
  /\ UNCHANGED <<chatVars, sourceCount>>
  /\ UNCHANGED callVars
  /\ lastOp' = Op("resumed", "")

\* A source plays its buffer to the end.
SourceFinishes(s) ==
  /\ s \in playing
  /\ playing' = playing \ {s}
  /\ endedQueue' = endedQueue \cup {s}
  /\ UNCHANGED <<chatVars, audioContextRef, activeSourceRef, resumeWaiters, sourceCount>>
  /\ UNCHANGED callVars
  /\ lastOp' = Op("finished", "")

\* source.onended = () => { activeSourceRef.current = null }
sourceOnended(s) ==
  /\ s \in endedQueue
  /\ endedQueue' = endedQueue \ {s}
  /\ activeSourceRef' = Null
  /\ UNCHANGED <<chatVars, audioContextRef, playing, resumeWaiters, sourceCount>>
  /\ UNCHANGED callVars
  /\ lastOp' = Op("sourceEnded", IF activeSourceRef = s THEN "active" ELSE "other")

\* The whole call, with one connect() less than the bound allows.
Next ==
  \/ MountEffect
  \/ EndCall
  \/ \E v \in Voices : (SmallBudget /\ SelectVoice(v))
  \/ (SmallBudget /\ handleRetry)
  \/ RetryTimerFires
  \/ \E c \in micPending : MicResolves(c)
  \/ \E c \in micPending : MicRejects(c)
  \/ \E s \in DOMAIN sess : onopen(s)
  \/ \E s \in DOMAIN sess, msg \in FailureMsgs : sessionPromiseCatch(s, msg)
  \/ \E s \in DOMAIN sess, msg \in FailureMsgs : onerror(s, msg)
  \/ \E s \in DOMAIN sess : onclose(s)
  \/ \E l \in rafLoops : AnimationFrame(l)

Spec == Init /\ [][Next]_vars

\* The call with the voice never changed.
NextRetry ==
  \/ MountEffect
  \/ EndCall
  \/ handleRetry
  \/ RetryTimerFires
  \/ \E c \in micPending : MicResolves(c)
  \/ \E c \in micPending : MicRejects(c)
  \/ \E s \in DOMAIN sess : onopen(s)
  \/ \E s \in DOMAIN sess, msg \in FailureMsgs : sessionPromiseCatch(s, msg)
  \/ \E s \in DOMAIN sess, msg \in FailureMsgs : onerror(s, msg)
  \/ \E s \in DOMAIN sess : onclose(s)
  \/ \E l \in rafLoops : AnimationFrame(l)

SpecRetry == Init /\ [][NextRetry]_vars

\* The call receiving audio: the devices and the handshake succeed, and the
\* user retries one time less than the call as a whole allows.
NextPlayback ==
  \/ MountEffect
  \/ EndCall
  \/ (SmallBudget /\ handleRetry)
  \/ RetryTimerFires
  \/ \E c \in micPending : MicResolves(c)
  \/ \E s \in DOMAIN sess : onopen(s)
  \/ \E s \in DOMAIN sess : onerror(s, {"network"})
  \/ \E s \in DOMAIN sess, m \in Messages : onmessage(s, m)
  \/ onmessageResume
  \/ \E src \in sourcesRef : onended(src)
  \/ Tick

SpecPlayback == Init /\ [][NextPlayback]_vars

\* The call capturing audio: the microphone is granted, and the user changes
\* the voice one time less than the call as a whole allows.
NextCapture ==
  \/ MountEffect
  \/ EndCall
  \/ \E v \in Voices : (SmallBudget /\ SelectVoice(v))
  \/ \E c \in micPending : MicResolves(c)
  \/ \E s \in DOMAIN sess : onopen(s)
  \/ \E s \in DOMAIN sess : sessionPromiseCatch(s, {"network"})
  \/ \E s \in DOMAIN sess : onclose(s)
  \/ toggleMic
  \/ \E p \in processors : onaudioprocess(p, Silence)

SpecCapture == Init /\ [][NextCapture]_vars

\* The first connection receiving audio, some of which fails to decode.
NextDecode ==
  \/ MountEffect
  \/ EndCall
  \/ \E c \in micPending : MicResolves(c)
  \/ \E s \in DOMAIN sess : onopen(s)
  \/ \E s \in DOMAIN sess, m \in Messages : onmessage(s, m)
  \/ onmessageResume
  \/ onmessageDecodeFails
  \/ \E src \in sourcesRef : onended(src)
  \/ Tick

SpecDecode == Init /\ [][NextDecode]_vars

\* The call with an analyser that may fail.
NextAnalyser ==
  \/ MountEffect
  \/ EndCall
  \/ (SmallBudget /\ handleRetry)
  \/ RetryTimerFires
  \/ \E c \in micPending : MicResolves(c)
  \/ \E c \in micPending, fault \in AnalyserFaults : MicResolvesAnalyserFails(c, fault)
  \/ \E s \in DOMAIN sess : onopen(s)
  \/ \E l \in rafLoops : AnimationFrameThrows(l)
  \/ \E p \in processors : onaudioprocess(p, Silence)

SpecAnalyser == Init /\ [][NextAnalyser]_vars

\* One camera request less than the bound allows.
SmallCams == Len(cams) + 1 < MaxCams

\* The camera under teardown: voice change, retry and unmount.  Sessions
\* stay in their handshake: the camera handlers do not read them.
NextVideoTeardown ==
  \/ MountEffect
  \/ EndCall
  \/ \E v \in Voices : (SmallBudget /\ SelectVoice(v))
  \/ (SmallBudget /\ handleRetry)
  \/ RetryTimerFires
  \/ \E c \in micPending : MicResolves(c)
  \/ \E c \in micPending : MicRejects(c)
  \/ ((isVideoOn \/ SmallCams) /\ toggleVideo)
  \/ (SmallCams /\ switchCamera)
  \/ \E c \in CamPending : CamResolves(c)

SpecVideoTeardown == Init /\ [][NextVideoTeardown]_vars

\* The chat: sessions and sends.
NextChat ==
  \/ createNewSession
  \/ \E id \in Ids(sessions) : selectSession(id)
  \/ \E id \in Ids(sessions) : deleteSession(id)
  \/ \E src \in SendSources : handleSendMessage(src)
  \/ \E k \in DOMAIN calls, outcome \in Outcomes : handleSendMessageResume(k, outcome)

SpecChat == InitStored /\ [][NextChat]_vars

\* Speech playback in the chat.
NextTts ==
  \/ createNewSession
  \/ \E id \in Ids(sessions) : selectSession(id)
  \/ \E created \in ContextStates : handlePlayAudio(created)
  \/ ContextResumes
  \/ \E s \in playing : SourceFinishes(s)
  \/ \E s \in endedQueue : sourceOnended(s)

SpecTts == InitStored /\ [][NextTts]_vars

\* The encoding of capture blocks on the first connection.
NextEncode ==
  \/ MountEffect
  \/ \E c \in micPending : MicResolves(c)
  \/ \E s \in DOMAIN sess : onopen(s)
  \/ \E p \in processors, data \in Blocks : onaudioprocess(p, data)

SpecEncode == Init /\ [][NextEncode]_vars

\* The call with the camera: the microphone is granted, the transport may
\* fail, the camera may be refused.
NextVideo ==
  \/ MountEffect
  \/ EndCall
  \/ \E c \in micPending : MicResolves(c)
  \/ \E s \in DOMAIN sess : onopen(s)
  \/ \E s \in DOMAIN sess : sessionPromiseCatch(s, {"network"})
  \/ \E s \in DOMAIN sess : onclose(s)
  \/ toggleVideo
  \/ switchCamera
  \/ \E c \in CamPending : CamResolves(c)
  \/ \E c \in CamPending : CamRejects(c)
  \/ VideoCanPlay
  \/ VideoStalls
  \/ \E i \in intervals : SamplerTick(i)
  \/ \E p \in processors : onaudioprocess(p, Silence)

SpecVideo == Init /\ [][NextVideo]_vars

\* =============================================================== claims
OpenSessions == { s \in DOMAIN sess : sess[s] = "open" }

\* Every pending asynchronous step has completed: no getUserMedia request,
\* handshake, retry timeout or decode is outstanding, and no animation frame
\* is about to end its loop.
Settled ==
  /\ micPending = {}
  /\ retryTimers = <<>>
  /\ decoding = <<>>
  /\ \A s \in DOMAIN sess : sess[s] # "pending"
  /\ rafLoops # {} => (processorRef # Null /\ activeRef)

\* C1: once the call has ended (unmount at any point of the start) and every
\* pending asynchronous step has completed, no microphone stream has live
\* tracks, no timer is armed, no audio context is open and no transport
\* session is open.  Stated for a build that has an API key.
C1_NoLeakAfterEndCall ==
  (apiKey /\ phase = "unmounted" /\ Settled) =>
     /\ liveMics = {}
     /\ rafLoops = {}
     /\ ~inputAudioContextRef
     /\ ~outputAudioContextRef
     /\ OpenSessions = {}

\* C2: after any number of retry invocations the call never holds more than
\* one live microphone stream.  Stated for a build that has an API key.
C2_RetryNoDuplicateMic == (apiKey /\ Len(conns) > 1) => Cardinality(liveMics) <= 1

\* C3: at most one transport session is open and not yet closed or handed to
\* teardown, in every reachable state.
C3_AtMostOneOpenSession == Cardinality(OpenSessions) <= 1

\* C4: chunks handled back to back (no interruption, no teardown, the clock
\* not past nextStartTime when a chunk arrives) start at the first one's
\* start plus the durations of those before: no gap and no overlap.
C4_BackToBack ==
  \A i \in 2..Len(run) : run[i].start = run[1].start + SumDur(SubSeq(run, 1, i - 1))

\* Three chunks back to back, of different durations, the clock having
\* advanced after the first was started.
C4_Witness ==
  /\ Len(run) >= 3
  /\ run[1].dur # run[2].dur
  /\ clock > run[1].start
  /\ lastOp = Op("onmessage", "scheduled")

\* C5: at the end of an onmessage that handled the interrupted signal the
\* active-source set is empty and nextStartTime is at or after the output
\* clock (the clock of the output context, when the call has one).
C5_InterruptedClears ==
  lastOp = Op("onmessage", "interrupted") =>
     /\ sourcesRef = {}
     /\ outputAudioContextRef => nextStartTimeRef >= clock

C5_Witness ==
  /\ lastOp = Op("onmessage", "interrupted")
  /\ outputAudioContextRef
  /\ clock >= 2
  /\ nextStartTimeRef = clock

\* C6: a capture block that fires while the microphone is toggled off is not
\* sent to the transport.
C6_MutedBlockNotSent ==
  (lastOp.op = "onaudioprocess" /\ ~isMicOn) => lastOp.arg # "sent"

\* C7: a connection failure whose message contains "429", reported through
\* onerror or through the rejection of the connect promise while the call is
\* active, leaves status error and the quota-exceeded message.
C7_QuotaClassified ==
  ( /\ lastOp.op \in {"onerror", "sessionPromise.catch"}
    /\ lastOp.arg = "429"
    /\ activeRef
    /\ phase = "mounted" ) =>
     /\ status = "error"
     /\ errorMessage = MSG_QUOTA

\* C8: cleanup is idempotent: a second run right after a first releases
\* nothing and leaves the heap as the first run left it, every handle null
\* and the active-source set empty.
C8_CleanupIdempotent ==
  LET h1 == cleanup(Cur) IN
    /\ ReleasesOf(h1) = {}
    /\ cleanup(h1) = h1
    /\ h1.currentSessionPromiseRef = Null
    /\ h1.streamRef = Null
    /\ h1.processorRef = Null
    /\ h1.animationFrameRef = Null
    /\ h1.sourcesRef = {}

\* cleanup has just run a second time, right after a run that released.
C8_Witness ==
  /\ lastOp.op \in {"unmount", "handleRetry"}
  /\ lastOp.arg = "again"
  /\ liveMics = {}
  /\ OpenSessions = {}

\* C9: status leaves error only by the retry the user invoked, and then to
\* connecting.
C9_ErrorLeftOnlyByRetry ==
  [][(status = "error" /\ status' # "error") =>
       (lastOp'.op = "retryTimer" /\ status' = "connecting")]_vars

\* A step of cleanup: the unmount, the retry, the change of voice.
CleanupOps == {"unmount", "handleRetry", "selectVoice"}

\* C10 as claimed: nextStartTime never decreases, except in the step that
\* handles an interrupted signal, which sets it to the output clock.
C10_MonotoneExceptInterrupt ==
  [][ \/ nextStartTimeRef' >= nextStartTimeRef
      \/ (lastOp' = Op("onmessage", "interrupted") /\ nextStartTimeRef' = clock') ]_vars

\* C10 amended: nextStartTime never decreases, except in the step that
\* handles an interrupted signal, which sets it to the output clock, and in
\* a step that runs cleanup, which sets it to 0.
C10_MonotoneExceptInterruptAndCleanup ==
  [][ \/ nextStartTimeRef' >= nextStartTimeRef
      \/ (lastOp' = Op("onmessage", "interrupted") /\ nextStartTimeRef' = clock')
      \/ (lastOp'.op \in CleanupOps /\ nextStartTimeRef' = 0) ]_vars

\* cleanup has just stopped scheduled sources and put nextStartTime back to 0.
C10_Witness ==
  /\ lastOp.op \in CleanupOps
  /\ lastOp.arg = "stopped sources"
  /\ nextStartTimeRef = 0

\* The call state a send or a sampler tick has no business changing: all of
\* it but the canvas.
callState == <<reactVars, activeRef, inputAudioContextRef, outputAudioContextRef,
               nextStartTimeRef, sourcesRef, streamRef, processorRef,
               animationFrameRef, analyserRef, currentSessionPromiseRef, liveMics, sess,
               closeOnResolve, processors, rafLoops, videoStreamRef,
               videoIntervalRef, liveCams, intervals, srcObject, readyState,
               asyncVars, camVars>>

\* C11: a send of a capture block or of a video frame raises nothing; one
\* attempted on a session that has closed, failed or been rejected is
\* dropped, leaves status and the rest of the call state as they were, and
\* leaves the processor and the sampler armed for the next block and tick.
C11_SendAfterCloseDropped ==
  [][ lastOp'.op \in {"onaudioprocess", "samplerTick"} =>
        /\ lastOp'.arg # "uncaught"
        /\ lastOp'.arg = "dropped" => UNCHANGED callState ]_vars

\* A frame has just been dropped on a closed session, while a processor
\* that has encoded a block is armed on a closed session too.
C11_Witness ==
  /\ lastOp = Op("samplerTick", "dropped")
  /\ pcmBlob # NoBlock
  /\ \E p \in processors : conns[p].micOn /\ sess[p] = "closed"
  /\ videoIntervalRef \in intervals

\* The camera was turned on at most once, each later request being a switch.
TurnedOnOnce == \A c \in DOMAIN cams : c > 1 => cams[c].by = "switchCamera"

\* C12: after a camera acquisition that failed, in toggleVideo or in
\* switchCamera, the camera is recorded as off.  Stated for a build that
\* has an API key and a camera turned on at most once.
C12_CameraFailureDisables ==
  ( /\ lastOp.op \in {"toggleVideo", "switchCamera"}
    /\ lastOp.arg = "failed"
    /\ apiKey
    /\ TurnedOnOnce ) => ~isVideoOn

\* C13: right after the unmount no retry timer, animation loop or sampler is
\* pending and no microphone or camera track is live.  Stated for a build
\* that has an API key and a call that has run connect() at most once.
C13_NothingPendingAfterTeardown ==
  (apiKey /\ lastOp.op = "unmount" /\ Len(conns) <= 1) =>
     /\ retryTimers = <<>>
     /\ rafLoops = {}
     /\ intervals = {}
     /\ liveMics = {}
     /\ liveCams = {}

C15_ScheduledInOrder ==
  \A i, j \in DOMAIN run : run[i].seq < run[j].seq => run[i].start <= run[j].start

\* A chunk has just been started while the chunk received right after it
\* was already suspended in its decode.
C15_Witness ==
  /\ lastOp = Op("onmessage", "scheduled")
  /\ run # <<>>
  /\ decoding # <<>>
  /\ decoding[1].seq = run[Len(run)].seq + 1
  /\ decoding[1].dur # run[Len(run)].dur

\* C16: a decode failure drops its chunk and nothing else: the active set,
\* status and the rest of the state stay as they were (no teardown), the
\* handlers suspended behind it stay queued, and a chunk that resumes right
\* after the failure is started and added to the active set.
C16_DecodeFailureContained ==
  [][ /\ lastOp' = Op("onmessage", "decode failed") =>
           /\ sourcesRef' = sourcesRef
           /\ UNCHANGED <<reactVars, heapVars, run>>
           /\ decoding' = Resumed(decoding).rest
      /\ (lastOp = Op("onmessage", "decode failed") /\ lastOp' = Op("onmessage", "scheduled")) =>
           Cardinality(sourcesRef') = Cardinality(sourcesRef) + 1 ]_vars

\* A decode has just failed on a connected call, with an earlier chunk in
\* the active set and a later one suspended.
C16_Witness ==
  /\ lastOp = Op("onmessage", "decode failed")
  /\ status = "connected"
  /\ sourcesRef # {}
  /\ decoding # <<>>

\* C17: with the camera on, no request pending and none refused, the facing
\* recorded equals the facing requested for the stream the ref names.
\* Stated for a build that has an API key and a camera turned on once.
C17_FacingMatchesStream ==
  ( /\ isVideoOn
    /\ videoStreamRef # Null
    /\ apiKey
    /\ TurnedOnOnce
    /\ \A c \in DOMAIN cams : cams[c].state = "acquired" ) =>
     cams[videoStreamRef].facing = cameraFacingMode

\* C18: without an API key no transport session is ever created, status is
\* never connected, and every call start that has run to its end (no
\* microphone request or retry timer outstanding) leaves status error.
C18_NoKeyNoSession ==
  ~apiKey =>
     /\ \A s \in DOMAIN sess : sess[s] = "none"
     /\ status # "connected"
     /\ (phase = "mounted" /\ micPending = {} /\ retryTimers = <<>>) => status = "error"

\* The microphone was granted and connect() threw on the missing key.
C18_Witness ==
  /\ ~apiKey
  /\ lastOp.op = "micResolved"
  /\ phase = "mounted"
  /\ status = "error"
  /\ liveMics # {}

\* C19: every sample is encoded as the integer part of s * 32768, clipped
\* to -32768..32767.
C19_EncodesClipped == pcmBlob.int16 = createPcmBlob_Clips(pcmBlob.samples).int16

\* C20: a sampler tick that fires while the element has no frame or the ref
\* holds no session promise sends nothing and changes nothing: the canvas
\* is not drawn on and the sampler stays armed.
C20_IdleTickNoOp ==
  [][ (lastOp'.op = "samplerTick" /\ (~readyState \/ currentSessionPromiseRef = Null)) =>
        /\ lastOp'.arg \in {"no element", "no session", "no frame"}
        /\ UNCHANGED <<reactVars, heapVars, asyncVars, camVars, pcmBlob>> ]_vars

\* A tick has just fired on an open session before the camera's first frame.
C20_Witness ==
  /\ lastOp = Op("samplerTick", "no frame")
  /\ videoIntervalRef \in intervals
  /\ videoStreamRef \in liveCams
  /\ currentSessionPromiseRef \in OpenSessions

\* C21: a failure of the analyser (createAnalyser or animateAudioLevel
\* throwing in connect(), or in a later frame) leaves status as it was and
\* the processor of the connection delivering blocks.
C21_AnalyserFailureContained ==
  [][ lastOp'.op = "analyserFailed" =>
        /\ status' = status
        /\ processors \subseteq processors'
        /\ \A c \in micPending \ micPending' : c \in processors' ]_vars

\* C22: a session that cleanup discarded while its handshake was pending
\* changes neither status nor the error message when its onopen, onerror or
\* rejection handler runs.
C22_StaleCallbackNoEffect ==
  [][ \A s \in closeOnResolve :
        sess'[s] # sess[s] => (status' = status /\ errorMessage' = errorMessage) ]_vars

\* C26: every transport session that is open was created with the voice
\* that is selected.
C26_OpenSessionsHaveSelectedVoice ==
  \A s \in OpenSessions : conns[s].voice = selectedVoice

\* C23: while the component is mounted with the camera recorded as on and
\* no camera request pending, the stream the ref names has live tracks and
\* the sampler the ref names is armed.
C23_CameraOnMeansSampling ==
  (phase = "mounted" /\ isVideoOn /\ CamPending = {}) =>
    (videoStreamRef \in liveCams /\ videoIntervalRef \in intervals)

\* C24: at most one camera stream has live tracks.
C24_OneLiveCameraStream == Cardinality(liveCams) <= 1

\* C25: at most one sampler interval is armed, and it is the one the ref
\* names.
C25_OneSamplerArmed ==
  /\ Cardinality(intervals) <= 1
  /\ intervals \subseteq {videoIntervalRef}

\* Two toggleVideo requests were granted and the connection was torn down
\* and started again; the sampler of the later request is the one armed.
C25_Witness ==
  /\ Len(cams) >= 2
  /\ \A c \in {1, 2} : cams[c].by = "toggleVideo" /\ cams[c].state = "acquired"
  /\ Len(conns) >= 2
  /\ intervals = {2}

\* C27: currentSessionId names a session of the list, and the list is not
\* empty.
C27_CurrentSessionInList ==
  sessions # <<>> /\ currentSessionId \in Ids(sessions)

Pending == { k \in DOMAIN calls : calls[k].state = "pending" }

\* C28: isGenerating is true exactly while a handleSendMessage is pending,
\* and at most one is pending.  Stated for sends whose session is the one
\* the view showed.
C28_GeneratingIffPending ==
  (\A k \in DOMAIN calls : calls[k].session = calls[k].shown) =>
    /\ isGenerating <=> Pending # {}
    /\ Cardinality(Pending) <= 1

\* The model messages handleSendMessage invocation k wrote to session id.
ModelMessages(k, id) ==
  { <<i, j>> \in (DOMAIN sessions) \X (1..(2 * MaxSends + 2)) :
      /\ sessions[i].id = id
      /\ j \in DOMAIN sessions[i].msgs
      /\ sessions[i].msgs[j].role = "model"
      /\ sessions[i].msgs[j].call = k }

\* C29: a handleSendMessage that has completed has cleared its timer and
\* left exactly one model message in the session the view showed when the
\* message was sent, if that session is still in the list.
C29_OneReplyInSessionSentFrom ==
  \A k \in DOMAIN calls :
    (calls[k].state = "done" /\ calls[k].shown \in Ids(sessions)) =>
      /\ ~calls[k].timer
      /\ Cardinality(ModelMessages(k, calls[k].shown)) = 1

====
